---- MODULE Spec2Model ----
(***************************************************************************)
(* MedAlze backend (backend/app.py, backend/model.py, backend/utils.py):   *)
(* a Flask service with three routes (/, /predict, /generate_report), a    *)
(* CheXNet model loaded once at import time and a Gemini client            *)
(* initialised once at import time.                                        *)
(*                                                                         *)
(* Text is modelled as sequences: a filename is a sequence of one-         *)
(* character strings, a Gemini reply is a sequence of tokens.              *)
(* Probabilities are integers in hundredths (35 stands for 0.35).          *)
(***************************************************************************)
EXTENDS Integers, Sequences, FiniteSets, TLC

VARIABLES
    process,          \* "starting" | "serving" | "aborted": the Python process
    startup,          \* position in the import-time code of app.py
    checkpoint,       \* environment: what lies at MODEL_PATH
    api_key,          \* environment: GEMINI_API_KEY
    singleton_model,  \* model.py  _chexnet_model
    model_module,     \* the state of the CheXNet instance the singleton holds
    load_log,         \* history: the calls of load_densenet_model so far
    chexnet_model,    \* app.py    chexnet_model
    gemini_model,     \* app.py    gemini_model
    upload_folder,    \* the files in app.config['UPLOAD_FOLDER']
    next_uuid,        \* the uuid4 values handed out so far, plus one
    workers           \* one record per request-serving thread

vars == <<process, startup, checkpoint, api_key, singleton_model, model_module, load_log,
          chexnet_model, gemini_model, upload_folder, next_uuid, workers>>

----------------------------------------------------------------------------
(* Bounds of the model *)

\* uuid4 values available for saved uploads
MaxUploads == 2
\* longest Gemini reply, in tokens, of the reply-parsing specification
MaxReplyLen == 6
\* calls of load_densenet_model in one process, of the loading specification
MaxLoadCalls == 4

\* The request-serving threads (app.run serves each request on a thread).
Workers == {"w1", "w2"}

----------------------------------------------------------------------------
(* Sequence helpers: Python's str operations on sequences *)

\* s[a:b] with 0-based a, b and Python's clamping
Slice(s, a, b) ==
    LET lo == IF a < 0 THEN 0 ELSE a
        hi == IF b > Len(s) THEN Len(s) ELSE b
    IN IF hi <= lo THEN <<>> ELSE SubSeq(s, lo + 1, hi)

\* the 0-based indices at which pat occurs in s
Occurrences(s, pat) ==
    {i \in 0..(Len(s) - Len(pat)) : SubSeq(s, i + 1, i + Len(pat)) = pat}

SetMin(S) == CHOOSE x \in S : \A y \in S : x <= y
SetMax(S) == CHOOSE x \in S : \A y \in S : x >= y

\* str.find and str.rfind: -1 when pat does not occur
Find(s, pat) == IF Occurrences(s, pat) = {} THEN -1 ELSE SetMin(Occurrences(s, pat))
RFind(s, pat) == IF Occurrences(s, pat) = {} THEN -1 ELSE SetMax(Occurrences(s, pat))

\* str.lower on the letters the model's filenames use
LowerChar(c) ==
    CASE c = "P" -> "p" [] c = "N" -> "n" [] c = "G" -> "g" [] c = "J" -> "j"
      [] c = "T" -> "t" [] c = "X" -> "x" [] OTHER -> c
Lower(s) == [i \in 1..Len(s) |-> LowerChar(s[i])]

\* filename.rsplit('.', 1)[1]: the text after the last dot (a dot is present)
RSplitDotLast(s) == Slice(s, RFind(s, <<".">>) + 1, Len(s))

\* os.path.splitext(name)[1] for a name without directory separators: the
\* text from the last dot on, empty when there is no dot or when only dots
\* precede the last dot
SplitExt(s) ==
    LET d == RFind(s, <<".">>)
    IN IF d = -1 \/ (\A i \in 1..d : s[i] = ".") THEN <<>> ELSE Slice(s, d, Len(s))

----------------------------------------------------------------------------
(* app.py: upload validation *)

ALLOWED_EXTENSIONS ==
    { <<"p","n","g">>, <<"j","p","g">>, <<"j","p","e","g">>, <<"g","i","f">> }

\* a faulty variant of allowed_file: the text between the first and the second dot
allowed_file_first_dot(filename) ==
    /\ Find(filename, <<".">>) # -1
    /\ LET rest == Slice(filename, Find(filename, <<".">>) + 1, Len(filename))
           stop == IF Find(rest, <<".">>) = -1 THEN Len(rest) ELSE Find(rest, <<".">>)
       IN Lower(Slice(rest, 0, stop)) \in ALLOWED_EXTENSIONS

allowed_file(filename) ==
    /\ Find(filename, <<".">>) # -1
    /\ Lower(RSplitDotLast(filename)) \in ALLOWED_EXTENSIONS

----------------------------------------------------------------------------
(* model.py: the condition list, the threshold, the model singleton *)

CONDITIONS ==
    << "Atelectasis", "Cardiomegaly", "Effusion", "Infiltration", "Mass", "Nodule",
       "Pneumonia", "Pneumothorax", "Consolidation", "Edema", "Emphysema", "Fibrosis",
       "Pleural_Thickening", "Hernia" >>

\* CheXNet(num_classes=14): the length of the classifier's output
num_classes == 14

\* NO_FINDING_THRESHOLD = 0.35, in hundredths
NO_FINDING_THRESHOLD == 35

\* load_densenet_model(model_path) on the singleton value m, with `ckpt` what
\* lies at model_path.  Returns the new singleton, whether the call raised,
\* and the value returned.
load_densenet_model(m, ckpt) ==
    IF m # "None"
    THEN [singleton |-> m, raised |-> FALSE, value |-> m]
    ELSE IF ckpt = "missing"
    THEN [singleton |-> "None", raised |-> TRUE, value |-> "None"]     \* FileNotFoundError
    ELSE IF ckpt = "corrupt"
    \* _chexnet_model = CheXNet() is assigned before torch.load raises
    THEN [singleton |-> "fresh", raised |-> TRUE, value |-> "None"]    \* RuntimeError
    ELSE [singleton |-> "loaded", raised |-> FALSE, value |-> "loaded"]

\* d[k] = v on a dict kept as a sequence of <<key, value>> pairs in insertion
\* order: an existing key keeps its place
DictPut(d, k, v) ==
    IF \E i \in 1..Len(d) : d[i][1] = k
    THEN [i \in 1..Len(d) |-> IF d[i][1] = k THEN <<k, v>> ELSE d[i]]
    ELSE Append(d, <<k, v>>)

\* predictions.values()
DictValues(d) == {d[i][2] : i \in 1..Len(d)}

\* {keys[i]: values[i] for the first n values}, built in order
RECURSIVE BuildDict(_, _, _)
BuildDict(keys, values, n) ==
    IF n = 0 THEN <<>>
    ELSE DictPut(BuildDict(keys, values, n - 1), keys[n], values[n])

\* a faulty variant of MapConditions: enumerate(probabilities, 1) against the
\* 0-based list, so each probability lands one condition early (the first wraps)
MapConditionsShifted(probabilities) ==
    BuildDict(CONDITIONS,
              [i \in 1..Len(probabilities) |-> probabilities[(i % Len(probabilities)) + 1]],
              Len(probabilities))

\* {CONDITIONS[i]: prob for i, prob in enumerate(probabilities)}
MapConditions(probabilities) == BuildDict(CONDITIONS, probabilities, Len(probabilities))

\* a faulty variant of NoSignificantFinding: <= instead of <
NoSignificantFindingLeq(max_probability) == max_probability <= NO_FINDING_THRESHOLD

NoSignificantFinding(max_probability) == max_probability < NO_FINDING_THRESHOLD

\* predict_image(model, image_tensor), with `forward` the outcome of
\* model(image_tensor): [raised, output].  Returns whether it raised, the
\* predictions dict and the flag.
predict_image(model, forward) ==
    LET failed == [raised |-> TRUE, predictions |-> <<>>, no_significant_finding |-> FALSE]
    IN IF model = "None" THEN failed                                   \* ValueError
       ELSE IF forward.raised THEN failed
       ELSE IF Len(forward.output) > Len(CONDITIONS) THEN failed       \* IndexError
       ELSE IF Len(forward.output) = 0 THEN failed                     \* max() of nothing
       ELSE LET predictions == MapConditions(forward.output)
                max_probability == SetMax(DictValues(predictions))
            IN [raised |-> FALSE, predictions |-> predictions,
                no_significant_finding |-> NoSignificantFinding(max_probability)]

----------------------------------------------------------------------------
(* app.py: the Gemini reply and its parsing (generate_report_endpoint) *)

\* A reply is a sequence of tokens; each token stands for the characters
\* named here: FENCE is three backquotes, QUOTE a double quote, "json" the
\* four letters (no JSON value by themselves).
FENCE == "fence"
QUOTE == "dquote"
Tokens == {FENCE, "json", "{}", QUOTE, " "}

TokLen(tok) == CASE tok = FENCE -> 3 [] tok = "json" -> 4 [] tok = "{}" -> 2 [] OTHER -> 1

\* the number of characters of a token sequence
RECURSIVE CharLen(_)
CharLen(s) == IF s = <<>> THEN 0 ELSE TokLen(Head(s)) + CharLen(Tail(s))

\* str.find / str.rfind on a reply, as character offsets (a pattern of whole
\* tokens occurs only at token boundaries: no other token holds a backquote)
CharFind(text, pat) ==
    IF Find(text, pat) = -1 THEN -1 ELSE CharLen(Slice(text, 0, Find(text, pat)))
CharRFind(text, pat) ==
    IF RFind(text, pat) = -1 THEN -1 ELSE CharLen(Slice(text, 0, RFind(text, pat)))

\* a faulty variant of LastFence: the first fence instead of the last
LastFenceFirst(text) == CharFind(text, <<FENCE>>)

\* response_text.rfind of the three backquotes
LastFence(text) == CharRFind(text, <<FENCE>>)

\* text[a:b] by character offsets: the tokens lying inside [a, b)
CharSlice(text, a, b) ==
    LET inside == {k \in 1..Len(text) :
                      /\ CharLen(Slice(text, 0, k - 1)) >= a
                      /\ CharLen(Slice(text, 0, k)) <= b}
    IN IF inside = {} THEN <<>> ELSE SubSeq(text, SetMin(inside), SetMax(inside))

\* str.strip(): leading and trailing whitespace removed
Strip(text) ==
    LET solid == {k \in 1..Len(text) : text[k] # " "}
    IN IF solid = {} THEN <<>> ELSE SubSeq(text, SetMin(solid), SetMax(solid))

NoValue == [type |-> "none", text |-> <<>>]

\* json.loads(text): whitespace, one value, whitespace.  The values of this
\* token alphabet are the object {} and a string "..." holding no quote.
\* Returns whether JSONDecodeError was raised, and the value.
json_loads(text) ==
    LET body == Strip(text)
    IN IF body = <<"{}">>
       THEN [raised |-> FALSE, value |-> [type |-> "object", text |-> <<>>]]
       ELSE IF /\ Len(body) >= 2
               /\ body[1] = QUOTE /\ body[Len(body)] = QUOTE
               /\ \A k \in 2..(Len(body) - 1) : body[k] # QUOTE
       THEN [raised |-> FALSE,
             value |-> [type |-> "string", text |-> SubSeq(body, 2, Len(body) - 1)]]
       ELSE [raised |-> TRUE, value |-> NoValue]

\* The body of every response, with the fields of all three routes.
Response(status, error) ==
    [status |-> status, error |-> error,
     predictions |-> <<>>, conditions_order |-> <<>>, no_significant_finding |-> FALSE,
     report |-> NoValue, model_loaded |-> FALSE, gemini_initialized |-> FALSE]

NoResponse == Response(0, "")

\* a faulty variant of parse_reply: when the text inside the fence is not
\* JSON, the whole reply is tried before giving up
parse_reply_fallback(response_text) ==
    LET json_start == CharFind(response_text, <<FENCE, "json">>)
        json_end == LastFence(response_text)
        whole == json_loads(response_text)
    IN IF json_start # -1 /\ json_end # -1 /\ json_start < json_end
       THEN LET raw_json_string ==
                    Strip(CharSlice(response_text, json_start + CharLen(<<FENCE, "json">>),
                                    json_end))
                parsed == json_loads(raw_json_string)
            IN IF ~parsed.raised
               THEN [Response(200, "") EXCEPT !.report = parsed.value]
               ELSE IF ~whole.raised
               THEN [Response(200, "") EXCEPT !.report = whole.value]
               ELSE Response(500, "Failed to parse AI generated report. Invalid JSON format after extraction.")
       ELSE IF whole.raised
            THEN Response(500, "Failed to parse AI generated report. Unexpected response format.")
            ELSE [Response(200, "") EXCEPT !.report = whole.value]

\* app.py lines 270-293: from response_text to the response
parse_reply(response_text) ==
    LET json_start == CharFind(response_text, <<FENCE, "json">>)
        json_end == LastFence(response_text)
    IN IF json_start # -1 /\ json_end # -1 /\ json_start < json_end
       THEN LET raw_json_string ==
                    Strip(CharSlice(response_text, json_start + CharLen(<<FENCE, "json">>),
                                    json_end))
                parsed == json_loads(raw_json_string)
            IN IF parsed.raised
               THEN Response(500, "Failed to parse AI generated report. Invalid JSON format after extraction.")
               ELSE [Response(200, "") EXCEPT !.report = parsed.value]
       ELSE LET parsed == json_loads(response_text)
            IN IF parsed.raised
               THEN Response(500, "Failed to parse AI generated report. Unexpected response format.")
               ELSE [Response(200, "") EXCEPT !.report = parsed.value]

----------------------------------------------------------------------------
(* app.py: the JSON body of /generate_report and the prompt built from it *)

\* data.get(field): a field is missing (None), an empty object or an object.
\* analysisResults carries its 'condition' ("" when the key is absent) and
\* whether it has 'confidence'; patientInfo whether it has 'id';
\* conditionsMetadata the conditions it has a full entry for.
Field(kind, condition, confidence, id, entries) ==
    [kind |-> kind, condition |-> condition, confidence |-> confidence,
     id |-> id, entries |-> entries]

MissingField == Field("missing", "", FALSE, FALSE, {})
EmptyField == Field("empty", "", FALSE, FALSE, {})
AnalysisResults(condition, confidence) == Field("object", condition, confidence, FALSE, {})
PatientInfo(id) == Field("object", "", FALSE, id, {})
ConditionsMetadata(entries) == Field("object", "", FALSE, FALSE, entries)

\* request.get_json(): kind "none" is no body (None), "empty_object" is {},
\* "empty_array" is [], "array" is a non-empty array, "object" an object with
\* the three fields as given.
Body(kind, analysisResults, patientInfo, conditionsMetadata) ==
    [kind |-> kind, analysisResults |-> analysisResults, patientInfo |-> patientInfo,
     conditionsMetadata |-> conditionsMetadata]

NoBody == Body("none", MissingField, MissingField, MissingField)

\* Python truth of a JSON value: None, {} and [] are false
Truthy(kind) == kind \notin {"none", "missing", "empty", "empty_object", "empty_array"}

\* a faulty variant of build_prompt: dict.get with defaults, so no lookup raises
build_prompt_lenient(analysis_results, patient_info, conditions_metadata) ==
    [raised |-> FALSE, prompt |-> <<"prompt", analysis_results.condition>>]

\* app.py lines 191-243: the prompt, or the KeyError of the first failing lookup
build_prompt(analysis_results, patient_info, conditions_metadata) ==
    IF \/ analysis_results.condition = ""                                \* ['condition']
       \/ analysis_results.condition \notin conditions_metadata.entries  \* metadata[...]
       \/ ~patient_info.id                                               \* ['id']
       \/ ~analysis_results.confidence                                   \* ['confidence']
    THEN [raised |-> TRUE, prompt |-> <<>>]
    ELSE [raised |-> FALSE, prompt |-> <<"prompt", analysis_results.condition>>]

----------------------------------------------------------------------------
(* The inputs of the model *)

\* what lies at MODEL_PATH: nothing, a file torch cannot load into CheXNet, a
\* good checkpoint
Checkpoints == {"missing", "corrupt", "ok"}

\* GEMINI_API_KEY: not set, set but genai raises during initialisation, set
\* and accepted
ApiKeys == {"unset", "rejected", "accepted"}

\* request.files: the 'file' part and its filename
FilePart(present, filename) == [present |-> present, filename |-> filename]
NoFilePart == FilePart(FALSE, <<>>)

UploadNames ==
    { <<>>,
      <<"x",".","P","N","G">>,
      <<"x",".","t","x","t">>,
      <<"p","n","g">>,
      <<"x",".","p","n","g",".","t","x","t">>,
      <<"x",".","t","x","t",".","p","n","g">>,
      <<"x",".">> }

FileParts == {NoFilePart} \cup {FilePart(TRUE, n) : n \in UploadNames}

\* the output of the forward pass: one raised level p at position k over a
\* floor q, in hundredths
ProbVector(k, p, q) == [i \in 1..num_classes |-> IF i = k THEN p ELSE q]
ProbLevels == {0, 34, 35, 36, 100}
ProbFloors == {0, 34}

Forward(raised, output) == [raised |-> raised, output |-> output]
ForwardRaises == Forward(TRUE, <<>>)

\* the tensor preprocess_image returns, named by what the parameters of the
\* checkpoint make of it: level p at position k over floor q
Tensor(k, p, q) == [k |-> k, p |-> p, q |-> q]
NoTensor == Tensor(0, 0, 0)
AllTensors == {Tensor(k, p, q) : k \in 1..num_classes, p \in ProbLevels, q \in ProbFloors}
ServingTensors == {Tensor(7, 34, 0), Tensor(14, 35, 34)}

\* The CheXNet instance (an nn.Module): its training flag, and how many times
\* a forward pass has updated the running statistics of its BatchNorm layers
\* (buffers of the instance, part of what the forward pass computes with).
Module(training, stats) == [training |-> training, stats |-> stats]
\* no instance constructed yet
NoModule == Module(FALSE, 0)
\* CheXNet(): a freshly constructed nn.Module is in training mode
NewModule == Module(TRUE, 0)

\* a faulty variant of eval_mode: model.train()
train_mode(module) == [module EXCEPT !.training = TRUE]

\* model.eval()
eval_mode(module) == [module EXCEPT !.training = FALSE]

\* the instance the singleton holds after load_densenet_model(model_path) on
\* the singleton value m: CheXNet() at line 57, .eval() at line 98 when the
\* state dict was loaded
loaded_module(module, m, ckpt) ==
    IF m # "None" THEN module
    ELSE IF ckpt = "missing" THEN module
    ELSE IF ckpt = "corrupt" THEN NewModule
    ELSE eval_mode(NewModule)

\* what the loaded parameters compute from a tensor, given the running
\* statistics: with the statistics of the checkpoint (stats = 0) the
\* tensor's own vector, a different one once they have drifted
Net(stats, tensor) == ProbVector(tensor.k, (tensor.p + stats) % 101, tensor.q)

\* output = model(image_tensor) under no_grad / inference_mode: the forward
\* pass may raise; in evaluation mode it reads the instance only, in training
\* mode BatchNorm also updates its running statistics
forward_pass(module, tensor, fails) ==
    IF fails THEN [module |-> module, forward |-> ForwardRaises]
    ELSE LET after == IF module.training THEN [module EXCEPT !.stats = @ + 1] ELSE module
         IN [module |-> after, forward |-> Forward(FALSE, Net(after.stats, tensor))]

\* the JSON bodies sent to /generate_report
AnalysisResultsValues ==
    {MissingField, EmptyField, AnalysisResults("Pneumonia", TRUE),
     AnalysisResults("Scurvy", TRUE), AnalysisResults("", TRUE)}
PatientInfoValues == {MissingField, PatientInfo(TRUE), PatientInfo(FALSE)}
ConditionsMetadataValues == {MissingField, EmptyField, ConditionsMetadata({"Pneumonia"})}

ReportBodies ==
    {NoBody,
     Body("empty_object", MissingField, MissingField, MissingField),
     Body("empty_array", MissingField, MissingField, MissingField),
     Body("array", MissingField, MissingField, MissingField)}
    \cup {Body("object", a, p, c) : a \in AnalysisResultsValues, p \in PatientInfoValues,
                                    c \in ConditionsMetadataValues}

\* the replies of gemini_model.generate_content: all token sequences up to a length
RECURSIVE SeqsUpTo(_, _)
SeqsUpTo(S, n) ==
    IF n = 0 THEN {<<>>}
    ELSE LET shorter == SeqsUpTo(S, n - 1)
         IN shorter \cup {Append(s, t) : s \in {x \in shorter : Len(x) = n - 1}, t \in S}

Replies == SeqsUpTo(Tokens, MaxReplyLen)

ApiOutcome(raised, text) == [raised |-> raised, text |-> text]
ApiRaises == ApiOutcome(TRUE, <<>>)
ServingReplies ==
    { <<"{}">>, <<FENCE, "json", "{}", FENCE>>, <<"json">>, <<FENCE, "json", QUOTE, FENCE>> }
ServingApiOutcomes == {ApiRaises} \cup {ApiOutcome(FALSE, r) : r \in ServingReplies}

----------------------------------------------------------------------------
(* The request-serving threads *)

\* no reply received (no token sequence)
NoReply == <<"no reply">>

FilePath(uuid, ext) == [uuid |-> uuid, ext |-> ext]
NoPath == FilePath(0, <<>>)

\* a thread between requests
Idle ==
    [pc |-> "idle", route |-> "none", file |-> NoFilePart, body |-> NoBody,
     filepath |-> NoPath, saved |-> FALSE, preprocess_ran |-> FALSE,
     tensor |-> NoTensor, forward_calls |-> 0, api_calls |-> 0, output |-> <<>>,
     predictions |-> <<>>,
     no_significant_finding |-> FALSE, reply |-> NoReply, resp |-> NoResponse]

\* return jsonify(...), status
Responded(wk, resp) == [wk EXCEPT !.pc = "responded", !.resp = resp]

Init ==
    /\ process = "starting"
    /\ startup = "load_model"
    /\ checkpoint \in Checkpoints
    /\ api_key \in ApiKeys
    /\ singleton_model = "None"
    /\ model_module = NoModule
    /\ load_log = <<>>
    /\ chexnet_model = "None"
    /\ gemini_model = "None"
    /\ upload_folder = {}
    /\ next_uuid = 1
    /\ workers = [w \in Workers |-> Idle]

----------------------------------------------------------------------------
(* app.py lines 68-100: the import-time initialisations *)

\* one call of load_densenet_model, as the history keeps it: what lay at
\* model_path, the singleton before the call, the outcome of
\* load_densenet_model (the singleton after, whether it raised, the value
\* returned)
LoadCall(ckpt, before, r) ==
    [ckpt |-> ckpt, before |-> before, after |-> r.singleton,
     raised |-> r.raised, value |-> r.value]

\* try: chexnet_model = load_densenet_model(...)  except Exception: chexnet_model = None
startup_load_model(m, ckpt) ==
    LET r == load_densenet_model(m, ckpt)
    IN [singleton |-> r.singleton,
        chexnet_model |-> IF r.raised THEN "None" ELSE r.value,
        aborted |-> FALSE]

\* gemini_model = None; with a key set, genai.configure / list_models /
\* GenerativeModel inside try/except; without one, a warning
startup_init_gemini(key) ==
    IF key = "unset" THEN "None"
    ELSE IF key = "rejected" THEN "None"
    ELSE "client"

StartupLoadModel ==
    /\ process = "starting" /\ startup = "load_model"
    /\ LET r == startup_load_model(singleton_model, checkpoint)
           call == load_densenet_model(singleton_model, checkpoint)
       IN /\ singleton_model' = r.singleton
          /\ model_module' = loaded_module(model_module, singleton_model, checkpoint)
          /\ load_log' = Append(load_log, LoadCall(checkpoint, singleton_model, call))
          /\ chexnet_model' = r.chexnet_model
          /\ process' = IF r.aborted THEN "aborted" ELSE process
          /\ startup' = IF r.aborted THEN startup ELSE "init_gemini"
    /\ UNCHANGED <<checkpoint, api_key, gemini_model, upload_folder, next_uuid, workers>>

\* after the last import-time statement app.run starts serving
StartupInitGemini ==
    /\ process = "starting" /\ startup = "init_gemini"
    /\ gemini_model' = startup_init_gemini(api_key)
    /\ startup' = "done"
    /\ process' = "serving"
    /\ UNCHANGED <<checkpoint, api_key, singleton_model, model_module,
                   load_log, chexnet_model, upload_folder, next_uuid, workers>>

----------------------------------------------------------------------------
(* app.py lines 103-112: GET / *)

\* a faulty variant of index: both flags read chexnet_model
index_one_flag(cm, gm) ==
    [Response(200, "") EXCEPT !.model_loaded = (cm # "None"),
                              !.gemini_initialized = (cm # "None")]

index(cm, gm) ==
    [Response(200, "") EXCEPT !.model_loaded = (cm # "None"),
                              !.gemini_initialized = (gm # "None")]

Index(w) ==
    /\ process = "serving" /\ workers[w].pc = "idle"
    /\ workers' = [workers EXCEPT ![w] =
                       Responded([Idle EXCEPT !.route = "/"], index(chexnet_model, gemini_model))]
    /\ UNCHANGED <<process, startup, checkpoint, api_key, singleton_model, model_module,
                   load_log, chexnet_model, gemini_model, upload_folder, next_uuid>>

----------------------------------------------------------------------------
(* app.py lines 114-169: POST /predict *)

\* a faulty variant of predict_check: the input is validated before the model
\* is looked at
predict_check_input_first(model, file) ==
    IF ~file.present THEN Response(400, "No file part in the request")
    ELSE IF file.filename = <<>> THEN Response(400, "No selected file")
    ELSE IF ~allowed_file(file.filename) THEN Response(400, "Invalid file type")
    ELSE IF model = "None" THEN Response(500, "AI model not loaded")
    ELSE NoResponse

\* lines 119-130 and 168-169: the response of a refused request, NoResponse
\* for a request that goes on to the try block
predict_check(model, file) ==
    IF model = "None" THEN Response(500, "AI model not loaded")
    ELSE IF ~file.present THEN Response(400, "No file part in the request")
    ELSE IF file.filename = <<>> THEN Response(400, "No selected file")
    ELSE IF allowed_file(file.filename) THEN NoResponse
    ELSE Response(400, "Invalid file type")

\* lines 119-136: validation, then file.save under a fresh uuid4 name; the
\* save may raise (500)
PredictBegin(w, files) ==
    /\ process = "serving" /\ workers[w].pc = "idle"
    /\ \E file \in files, save_ok \in BOOLEAN :
       LET wk == [Idle EXCEPT !.route = "/predict", !.file = file]
           refused == predict_check(chexnet_model, file)
           filepath == FilePath(next_uuid, SplitExt(file.filename))
       IN IF refused # NoResponse
          THEN /\ workers' = [workers EXCEPT ![w] = Responded(wk, refused)]
               /\ UNCHANGED <<upload_folder, next_uuid>>
          ELSE /\ next_uuid <= MaxUploads
               /\ next_uuid' = next_uuid + 1
               /\ IF save_ok
                  THEN /\ upload_folder' = upload_folder \cup {filepath}
                       /\ workers' = [workers EXCEPT ![w] =
                              [wk EXCEPT !.pc = "saved", !.filepath = filepath,
                                         !.saved = TRUE]]
                  ELSE /\ upload_folder' = upload_folder
                       /\ workers' = [workers EXCEPT ![w] =
                              Responded([wk EXCEPT !.filepath = filepath],
                                        Response(500, "Error during prediction"))]
    /\ UNCHANGED <<process, startup, checkpoint, api_key, singleton_model, model_module,
                   load_log, chexnet_model, gemini_model>>

\* line 139 and utils.py preprocess_image: FileNotFoundError when the path is
\* gone (404), any other exception of the decoding (500), else the tensor
PredictPreprocess(w, tensors) ==
    /\ workers[w].pc = "saved"
    /\ \E decode_ok \in BOOLEAN, tensor \in tensors :
       LET wk == [workers[w] EXCEPT !.preprocess_ran = TRUE]
       IN workers' = [workers EXCEPT ![w] =
              IF wk.filepath \notin upload_folder
              THEN Responded(wk, Response(404, "Image file not found"))
              ELSE IF ~decode_ok
              THEN Responded(wk, Response(500, "Error during prediction"))
              ELSE [wk EXCEPT !.pc = "preprocessed", !.tensor = tensor]]
    /\ UNCHANGED <<process, startup, checkpoint, api_key, singleton_model, model_module,
                   load_log, chexnet_model, gemini_model, upload_folder, next_uuid>>

\* line 143: predict_image(chexnet_model, preprocessed_image)
infer_step(wk, model, forward) ==
    LET r == predict_image(model, forward)
        called == [wk EXCEPT !.forward_calls = @ + (IF model = "None" THEN 0 ELSE 1)]
    IN IF r.raised
       THEN Responded(called, Response(500, "Error during prediction"))
       ELSE [called EXCEPT !.pc = "inferred", !.output = forward.output,
                           !.predictions = r.predictions,
                           !.no_significant_finding = r.no_significant_finding]

\* model.py lines 116-126 on the instance chexnet_model refers to (the one
\* the singleton holds): model.eval(), then the forward pass
PredictInfer(w) ==
    /\ workers[w].pc = "preprocessed"
    /\ \E fails \in BOOLEAN :
       LET r == forward_pass(eval_mode(model_module), workers[w].tensor, fails)
       IN /\ workers' = [workers EXCEPT ![w] =
                 infer_step(workers[w], chexnet_model, r.forward)]
          /\ model_module' = IF chexnet_model = "None" THEN model_module ELSE r.module
    /\ UNCHANGED <<process, startup, checkpoint, api_key, singleton_model, load_log,
                   chexnet_model, gemini_model, upload_folder, next_uuid>>

\* lines 156-161: the body of the successful response
predict_response(predictions, no_significant_finding) ==
    [Response(200, "") EXCEPT !.predictions = predictions,
                              !.conditions_order = CONDITIONS,
                              !.no_significant_finding = no_significant_finding]

\* lines 153-161: os.remove(filepath) (FileNotFoundError when it is gone: 404),
\* then the successful response
PredictRemove(w) ==
    /\ workers[w].pc = "inferred"
    /\ LET wk == workers[w]
       IN IF wk.filepath \notin upload_folder
          THEN /\ workers' = [workers EXCEPT ![w] =
                      Responded(wk, Response(404, "No such file or directory"))]
               /\ upload_folder' = upload_folder
          ELSE /\ upload_folder' = upload_folder \ {wk.filepath}
               /\ workers' = [workers EXCEPT ![w] =
                      Responded(wk, predict_response(wk.predictions,
                                                     wk.no_significant_finding))]
    /\ UNCHANGED <<process, startup, checkpoint, api_key, singleton_model, model_module,
                   load_log, chexnet_model, gemini_model, next_uuid>>

\* something outside the process deletes a file of the upload folder
ExternalDelete ==
    /\ process = "serving"
    /\ \E f \in upload_folder : upload_folder' = upload_folder \ {f}
    /\ UNCHANGED <<process, startup, checkpoint, api_key, singleton_model, model_module,
                   load_log, chexnet_model, gemini_model, next_uuid, workers>>

\* the response has been sent: the thread takes the next request
Return(w) ==
    /\ workers[w].pc = "responded"
    /\ workers' = [workers EXCEPT ![w] = Idle]
    /\ UNCHANGED <<process, startup, checkpoint, api_key, singleton_model, model_module,
                   load_log, chexnet_model, gemini_model, upload_folder, next_uuid>>

----------------------------------------------------------------------------
(* app.py lines 171-297: POST /generate_report *)

\* lines 176-188: the response of a refused request, NoResponse for a request
\* that goes on to the try block.  data.get on a body that is no object
\* raises AttributeError outside the try block: Flask answers 500 through
\* the errorhandler(500).
report_check(gm, body) ==
    IF gm = "None" THEN Response(500, "Gemini AI model not initialized")
    ELSE IF ~Truthy(body.kind) THEN Response(400, "No JSON data provided")
    ELSE IF body.kind # "object" THEN Response(500, "Internal Server Error")
    ELSE IF \/ ~Truthy(body.analysisResults.kind)
            \/ ~Truthy(body.patientInfo.kind)
            \/ ~Truthy(body.conditionsMetadata.kind)
    THEN Response(400, "Missing analysisResults, patientInfo, or conditionsMetadata")
    ELSE NoResponse

\* lines 176-244: validation and the construction of the prompt
ReportBegin(w, bodies) ==
    /\ process = "serving" /\ workers[w].pc = "idle"
    /\ \E body \in bodies :
       LET wk == [Idle EXCEPT !.route = "/generate_report", !.body = body]
           refused == report_check(gemini_model, body)
           built == build_prompt(body.analysisResults, body.patientInfo,
                                 body.conditionsMetadata)
       IN workers' = [workers EXCEPT ![w] =
              IF refused # NoResponse THEN Responded(wk, refused)
              ELSE IF built.raised
              THEN Responded(wk, Response(500, "Failed to generate report"))
              ELSE [wk EXCEPT !.pc = "prompted"]]
    /\ UNCHANGED <<process, startup, checkpoint, api_key, singleton_model, model_module,
                   load_log, chexnet_model, gemini_model, upload_folder, next_uuid>>

\* a faulty variant of api_step: a failed call is tried once more
api_step_retry(wk, outcome) ==
    LET called == [wk EXCEPT !.api_calls = @ + 1]
    IN IF outcome.raised
       THEN IF wk.api_calls = 0 THEN called
            ELSE Responded(called, Response(500, "Failed to generate report"))
       ELSE [called EXCEPT !.pc = "replied", !.reply = outcome.text]

\* lines 266-267: gemini_model.generate_content(...) and response.text, either
\* of which may raise (caught at line 295)
api_step(wk, outcome) ==
    LET called == [wk EXCEPT !.api_calls = @ + 1]
    IN IF outcome.raised
       THEN Responded(called, Response(500, "Failed to generate report"))
       ELSE [called EXCEPT !.pc = "replied", !.reply = outcome.text]

ReportCallApi(w, outcomes) ==
    /\ workers[w].pc = "prompted"
    /\ \E outcome \in outcomes :
          workers' = [workers EXCEPT ![w] = api_step(workers[w], outcome)]
    /\ UNCHANGED <<process, startup, checkpoint, api_key, singleton_model, model_module,
                   load_log, chexnet_model, gemini_model, upload_folder, next_uuid>>

\* lines 270-293
ReportParse(w) ==
    /\ workers[w].pc = "replied"
    /\ workers' = [workers EXCEPT ![w] = Responded(workers[w], parse_reply(workers[w].reply))]
    /\ UNCHANGED <<process, startup, checkpoint, api_key, singleton_model, model_module,
                   load_log, chexnet_model, gemini_model, upload_folder, next_uuid>>

----------------------------------------------------------------------------
(* The service *)

Next ==
    \/ StartupLoadModel
    \/ StartupInitGemini
    \/ \E w \in Workers : Index(w)
    \/ \E w \in Workers : PredictBegin(w, FileParts)
    \/ \E w \in Workers : PredictPreprocess(w, ServingTensors)
    \/ \E w \in Workers : PredictInfer(w)
    \/ \E w \in Workers : PredictRemove(w)
    \/ ExternalDelete
    \/ \E w \in Workers : ReportBegin(w, ReportBodies)
    \/ \E w \in Workers : ReportCallApi(w, ServingApiOutcomes)
    \/ \E w \in Workers : ReportParse(w)
    \/ \E w \in Workers : Return(w)

Spec == Init /\ [][Next]_vars

----------------------------------------------------------------------------
(* The function predict_image on every output vector: /predict alone, one *)
(* thread, one upload name, a good checkpoint.                            *)

GoodUpload == FilePart(TRUE, <<"x",".","p","n","g">>)

InitPredictImage == Init /\ checkpoint = "ok" /\ api_key = "accepted"

NextPredictImage ==
    \/ StartupLoadModel
    \/ StartupInitGemini
    \/ PredictBegin("w1", {GoodUpload})
    \/ PredictPreprocess("w1", AllTensors)
    \/ PredictInfer("w1")
    \/ PredictRemove("w1")
    \/ Return("w1")

SpecPredictImage == InitPredictImage /\ [][NextPredictImage]_vars

----------------------------------------------------------------------------
(* The function load_densenet_model called repeatedly in one process, the  *)
(* file at model_path changing between calls.                              *)

\* load_densenet_model(model_path)
LoadModelCall ==
    /\ Len(load_log) < MaxLoadCalls
    /\ LET r == load_densenet_model(singleton_model, checkpoint)
       IN /\ singleton_model' = r.singleton
          /\ model_module' = loaded_module(model_module, singleton_model, checkpoint)
          /\ load_log' = Append(load_log, LoadCall(checkpoint, singleton_model, r))
    /\ UNCHANGED <<process, startup, checkpoint, api_key, chexnet_model, gemini_model,
                   upload_folder, next_uuid, workers>>

\* environment: the file at model_path is removed, damaged or put in place
ReplaceCheckpoint ==
    /\ \E c \in Checkpoints : c # checkpoint /\ checkpoint' = c
    /\ UNCHANGED <<process, startup, api_key, singleton_model, model_module, load_log,
                   chexnet_model, gemini_model, upload_folder, next_uuid, workers>>

InitLoad == Init /\ api_key = "unset"

NextLoad ==
    \/ LoadModelCall
    \/ ReplaceCheckpoint

SpecLoad == InitLoad /\ [][NextLoad]_vars

----------------------------------------------------------------------------
(* The parsing of every reply: /generate_report alone, one thread, one    *)
(* well-formed body, an accepted API key.                                 *)

GoodBody ==
    Body("object", AnalysisResults("Pneumonia", TRUE), PatientInfo(TRUE),
         ConditionsMetadata({"Pneumonia"}))

AllApiOutcomes == {ApiRaises} \cup {ApiOutcome(FALSE, r) : r \in Replies}

InitParse == Init /\ checkpoint = "ok" /\ api_key = "accepted"

NextParse ==
    \/ StartupLoadModel
    \/ StartupInitGemini
    \/ ReportBegin("w1", {GoodBody})
    \/ ReportCallApi("w1", AllApiOutcomes)
    \/ ReportParse("w1")
    \/ Return("w1")

SpecParse == InitParse /\ [][NextParse]_vars

----------------------------------------------------------------------------
(* Properties *)

\* thread w has built the response of a request to `route`
RespondedTo(w, route) == workers[w].pc = "responded" /\ workers[w].route = route

\* the text after the last dot of name, lowered, is an allowed extension
HasAllowedExtension(name) ==
    \E d \in 1..Len(name) :
        /\ name[d] = "."
        /\ \A j \in (d + 1)..Len(name) : name[j] # "."
        /\ Lower(SubSeq(name, d + 1, Len(name))) \in
               { <<"p","n","g">>, <<"j","p","g">>, <<"j","p","e","g">>, <<"g","i","f">> }

\* the 'file' part is absent, its filename is empty or has no allowed extension
BadUpload(file) ==
    \/ ~file.present
    \/ file.filename = <<>>
    \/ ~HasAllowedExtension(file.filename)

\* C1: every /predict request that saved its upload has the temporary file
\* removed from the upload folder when its response is returned, on the
\* success path and on every failure path.
C1_TempFileRemovedOnEveryPath ==
    \A w \in Workers :
        (RespondedTo(w, "/predict") /\ workers[w].saved)
            => workers[w].filepath \notin upload_folder

\* C2: with the model loaded, a /predict request without a 'file' part, with
\* an empty filename or with a filename whose text after the last dot is
\* (case-insensitively) none of png, jpg, jpeg, gif gets status 400, writes
\* no file and runs neither preprocessing nor inference.
C2_BadUploadRefused ==
    \A w \in Workers :
        (RespondedTo(w, "/predict") /\ chexnet_model # "None" /\ BadUpload(workers[w].file))
            => /\ workers[w].resp.status = 400
               /\ ~workers[w].saved
               /\ workers[w].filepath = NoPath
               /\ ~workers[w].preprocess_ran
               /\ workers[w].forward_calls = 0

C2_Witness ==
    \E w \in Workers :
        /\ RespondedTo(w, "/predict") /\ chexnet_model # "None"
        /\ workers[w].file = FilePart(TRUE, <<"x",".","p","n","g",".","t","x","t">>)
        /\ workers[w].resp.status = 400

\* C3: when the model failed to load, every /predict request gets status 500
\* with the model-not-loaded error whatever it contains; nothing is validated,
\* saved, preprocessed or inferred, and the process keeps serving.
C3_NoModelRefusesEverything ==
    \A w \in Workers :
        (workers[w].route = "/predict" /\ process = "serving" /\ checkpoint # "ok")
            => /\ workers[w].pc = "responded"
               /\ workers[w].resp.status = 500
               /\ workers[w].resp.error = "AI model not loaded"
               /\ ~workers[w].saved /\ ~workers[w].preprocess_ran
               /\ workers[w].forward_calls = 0
               /\ upload_folder = {}
               /\ ENABLED Return(w)

C3_Witness ==
    \E w \in Workers, v \in Workers :
        /\ checkpoint = "corrupt" /\ w # v
        /\ RespondedTo(w, "/predict") /\ workers[w].file = NoFilePart
        /\ workers[w].resp.status = 500
        /\ RespondedTo(v, "/predict")
        /\ workers[v].file = FilePart(TRUE, <<"x",".","t","x","t">>)
        /\ workers[v].resp.status = 500

\* thread w holds the result of predict_image
HasPrediction(w) ==
    /\ workers[w].route = "/predict"
    /\ \/ workers[w].pc = "inferred"
       \/ workers[w].pc = "responded" /\ workers[w].resp.status = 200

\* C4: no_significant_finding is true exactly when the maximum of the returned
\* probabilities is strictly below 0.35 (35 hundredths); at exactly 0.35 it
\* is false.
C4_FlagIffMaxBelowThreshold ==
    \A w \in Workers :
        HasPrediction(w) =>
            LET out == workers[w].output
                below == \A i \in 1..Len(out) : out[i] < 35
                at == (\E i \in 1..Len(out) : out[i] = 35)
                          /\ (\A i \in 1..Len(out) : out[i] <= 35)
            IN /\ workers[w].no_significant_finding = below
               /\ at => ~workers[w].no_significant_finding
               /\ workers[w].pc = "responded"
                      => workers[w].resp.no_significant_finding = below

C4_Witness ==
    \E w \in Workers :
        /\ RespondedTo(w, "/predict") /\ workers[w].resp.status = 200
        /\ workers[w].output = ProbVector(3, 35, 34)
        /\ ~workers[w].resp.no_significant_finding

\* C5: the keys of the predictions are exactly the 14 conditions in the
\* list's order, the value at CONDITIONS[i] is the i-th element of the model's
\* output, and conditions_order of every successful response is that list.
C5_PredictionsFollowConditions ==
    \A w \in Workers :
        HasPrediction(w) =>
            LET pred == workers[w].predictions
            IN /\ Len(pred) = 14 /\ Len(CONDITIONS) = 14
               /\ \A i \in 1..14 : \A j \in 1..14 : (i # j) => (CONDITIONS[i] # CONDITIONS[j])
               /\ \A i \in 1..14 : pred[i] = <<CONDITIONS[i], workers[w].output[i]>>
               /\ workers[w].pc = "responded"
                      => /\ workers[w].resp.predictions = pred
                         /\ workers[w].resp.conditions_order = CONDITIONS

C5_Witness ==
    \E w \in Workers :
        /\ RespondedTo(w, "/predict") /\ workers[w].resp.status = 200
        /\ workers[w].filepath.uuid = 2
        /\ workers[w].output = ProbVector(7, 100, 0)
        /\ workers[w].resp.predictions[7] = <<"Pneumonia", 100>>
        /\ workers[w].resp.predictions[14] = <<"Hernia", 0>>


\* C6: the two import-time initialisations never abort the process and fix
\* the two globals for its lifetime; GET / answers 200 with the two startup
\* outcomes; /predict is refused as model-not-loaded exactly when the model
\* is absent and /generate_report as not-initialized exactly when the report
\* generator is absent, each whatever the other outcome.
C6_StartupOutcomesIndependentAndFixed ==
    /\ process # "aborted"
    /\ process = "serving"
           => /\ (chexnet_model # "None") = (checkpoint = "ok")
              /\ (gemini_model # "None") = (api_key = "accepted")
    /\ \A w \in Workers :
          /\ RespondedTo(w, "/")
                 => /\ workers[w].resp.status = 200
                    /\ workers[w].resp.model_loaded = (checkpoint = "ok")
                    /\ workers[w].resp.gemini_initialized = (api_key = "accepted")
          /\ RespondedTo(w, "/predict")
                 => ((workers[w].resp.error = "AI model not loaded") = (checkpoint # "ok"))
          /\ RespondedTo(w, "/generate_report")
                 => ((workers[w].resp.error = "Gemini AI model not initialized")
                        = (api_key # "accepted"))

C6_Witness ==
    \E w \in Workers, v \in Workers :
        /\ checkpoint = "missing" /\ api_key = "accepted"
        /\ RespondedTo(w, "/")
        /\ ~workers[w].resp.model_loaded /\ workers[w].resp.gemini_initialized
        /\ RespondedTo(v, "/generate_report") /\ workers[v].resp.status = 200

\* a body that is absent or empty, or lacks (or holds empty) one of the
\* three fields
BodyLacksField(body) ==
    \/ body.kind \in {"none", "empty_object", "empty_array"}
    \/ body.analysisResults.kind \in {"missing", "empty"}
    \/ body.patientInfo.kind \in {"missing", "empty"}
    \/ body.conditionsMetadata.kind \in {"missing", "empty"}

\* C7: with the report generator initialised, a /generate_report request
\* whose body is absent or empty, or in which one of analysisResults,
\* patientInfo, conditionsMetadata is missing or empty, gets status 400 and
\* the generative API is not called.
C7_MissingFieldsGive400 ==
    \A w \in Workers :
        (RespondedTo(w, "/generate_report") /\ gemini_model # "None"
             /\ BodyLacksField(workers[w].body))
            => /\ workers[w].resp.status = 400
               /\ workers[w].api_calls = 0

\* C8: with the report generator initialised and the three fields present, a
\* request whose analysisResults.condition is no key of conditionsMetadata
\* gets status 500 with the handler's own error body, without any call of the
\* generative API, and the process keeps serving.
C8_UnknownConditionGives500 ==
    \A w \in Workers :
        (/\ workers[w].route = "/generate_report" /\ gemini_model # "None"
         /\ workers[w].body.kind = "object"
         /\ workers[w].body.analysisResults.kind = "object"
         /\ workers[w].body.patientInfo.kind = "object"
         /\ workers[w].body.conditionsMetadata.kind = "object"
         /\ workers[w].body.analysisResults.condition
                \notin workers[w].body.conditionsMetadata.entries)
            => /\ workers[w].pc = "responded"
               /\ workers[w].resp.status = 500
               /\ workers[w].resp.error = "Failed to generate report"
               /\ workers[w].api_calls = 0
               /\ process = "serving"
               /\ ENABLED Return(w)

C8_Witness ==
    \E w \in Workers :
        /\ RespondedTo(w, "/generate_report")
        /\ workers[w].body = Body("object", AnalysisResults("Scurvy", TRUE), PatientInfo(TRUE),
                                  ConditionsMetadata({"Pneumonia"}))
        /\ workers[w].resp.status = 500


\* t is a JSON text of the token alphabet: blanks, then the object {} or a
\* string between two quotes with no quote inside, then blanks
IsJson(t) ==
    \E a \in 1..Len(t), b \in 1..Len(t) :
        /\ a <= b
        /\ \A k \in 1..Len(t) : (k < a \/ k > b) => t[k] = " "
        /\ \/ a = b /\ t[a] = "{}"
           \/ /\ a < b /\ t[a] = QUOTE /\ t[b] = QUOTE
              /\ \A k \in (a + 1)..(b - 1) : t[k] # QUOTE

\* the value of a JSON text t
JsonValue(t) ==
    LET a == SetMin({k \in 1..Len(t) : t[k] # " "})
        b == SetMax({k \in 1..Len(t) : t[k] # " "})
    IN IF a = b THEN [type |-> "object", text |-> <<>>]
       ELSE [type |-> "string", text |-> SubSeq(t, a + 1, b - 1)]

\* the positions of the opening markers (three backquotes, then json) and of
\* the three-backquote markers of reply r
Openings(r) == {i \in 1..(Len(r) - 1) : r[i] = FENCE /\ r[i + 1] = "json"}
Fences(r) == {j \in 1..Len(r) : r[j] = FENCE}

\* r holds an opening marker followed later by a three-backquote marker
HasFencedBlock(r) == \E i \in Openings(r), j \in Fences(r) : i < j

\* the text strictly between the first opening marker and the last fence
FencedText(r) == SubSeq(r, SetMin(Openings(r)) + 2, SetMax(Fences(r)) - 1)

ParseFailure ==
    {"Failed to parse AI generated report. Invalid JSON format after extraction.",
     "Failed to parse AI generated report. Unexpected response format."}

\* C9: a reply with an opening marker followed later by a closing marker has
\* the text strictly between the first opening marker and the last closing
\* marker parsed and, when valid JSON, returned with status 200; a reply
\* without such a block that is valid JSON as a whole is returned with status
\* 200; a reply with neither gets status 500 with a parse-failure error.
C9_ReplyParsing ==
    \A w \in Workers :
        (RespondedTo(w, "/generate_report") /\ workers[w].reply # NoReply) =>
            LET r == workers[w].reply
                resp == workers[w].resp
                fenced_ok == HasFencedBlock(r) /\ IsJson(FencedText(r))
            IN /\ fenced_ok
                   => (resp.status = 200 /\ resp.report = JsonValue(FencedText(r)))
               /\ (~HasFencedBlock(r) /\ IsJson(r))
                   => (resp.status = 200 /\ resp.report = JsonValue(r))
               /\ (~fenced_ok /\ ~IsJson(r))
                   => (resp.status = 500 /\ resp.error \in ParseFailure)

C9_Witness ==
    \E w \in Workers :
        /\ RespondedTo(w, "/generate_report")
        /\ workers[w].reply = <<"json", FENCE, "json", " ", "{}", FENCE>>
        /\ workers[w].resp.status = 200
        /\ workers[w].resp.report.type = "object"

\* the body passes the validation and the construction of the prompt
BodyYieldsPrompt(body) ==
    /\ body.kind = "object"
    /\ body.analysisResults.kind = "object"
    /\ body.patientInfo.kind = "object"
    /\ body.conditionsMetadata.kind = "object"
    /\ body.analysisResults.condition \in body.conditionsMetadata.entries
    /\ body.analysisResults.confidence
    /\ body.patientInfo.id

\* C10: no request retries an external call: a /predict request runs the
\* forward pass at most once, a /generate_report request calls the
\* generative API at most once: exactly once when it passes validation and
\* prompt construction, never otherwise, and never again after the call
\* failed or its reply failed to parse.
C10_NoRetry ==
    \A w \in Workers :
        /\ workers[w].forward_calls <= 1
        /\ workers[w].api_calls <= 1
        /\ workers[w].route # "/predict" => workers[w].forward_calls = 0
        /\ workers[w].route # "/generate_report" => workers[w].api_calls = 0
        /\ workers[w].pc = "inferred" => workers[w].forward_calls = 1
        /\ RespondedTo(w, "/generate_report")
               => workers[w].api_calls =
                      (IF gemini_model # "None" /\ BodyYieldsPrompt(workers[w].body)
                       THEN 1 ELSE 0)

C10_Witness ==
    \E w \in Workers, v \in Workers :
        /\ RespondedTo(w, "/generate_report")
        /\ BodyYieldsPrompt(workers[w].body)
        /\ workers[w].resp.error = "Failed to generate report"
        /\ workers[w].api_calls = 1
        /\ RespondedTo(v, "/predict")
        /\ workers[v].forward_calls = 1 /\ workers[v].resp.status = 500

\* C11: the model is read-only shared state.  While the process serves, no
\* request changes which instance the singleton and chexnet_model hold, nor
\* the instance (it stays in evaluation mode with the running statistics of
\* the checkpoint); so every prediction is what the loaded parameters make
\* of its tensor, and two calls of predict_image on the same tensor yield
\* the same output vector, the same predictions and the same flag, whatever
\* ran between or beside them.
C11_ModelReadOnly ==
    /\ process = "serving" /\ checkpoint = "ok"
           => /\ singleton_model = "loaded"
              /\ chexnet_model = "loaded"
              /\ model_module = Module(FALSE, 0)
    /\ \A w \in Workers :
           HasPrediction(w)
               => /\ checkpoint = "ok"
                  /\ workers[w].output = Net(0, workers[w].tensor)
    /\ \A w \in Workers, v \in Workers :
           HasPrediction(w) /\ HasPrediction(v) /\ workers[w].tensor = workers[v].tensor
               => /\ workers[w].output = workers[v].output
                  /\ workers[w].predictions = workers[v].predictions
                  /\ workers[w].no_significant_finding = workers[v].no_significant_finding

\* two requests, saved under different names, have predicted on the same
\* tensor, the second after the first
C11_Witness ==
    /\ workers["w1"].pc = "responded" /\ HasPrediction("w1")
    /\ workers["w2"].pc = "inferred"
    /\ workers["w1"].filepath.uuid < workers["w2"].filepath.uuid
    /\ workers["w1"].tensor = Tensor(14, 35, 34)
    /\ workers["w2"].tensor = Tensor(14, 35, 34)
    /\ workers["w1"].resp.predictions = workers["w2"].predictions
    /\ model_module = Module(FALSE, 0)

\* C12: load_densenet_model leaves the singleton absent whenever it raises;
\* a call that does not raise returns an instance into which the weights of
\* the checkpoint were loaded, and a call returns the cached instance only
\* after an earlier call loaded it successfully.
C12_FailedLoadLeavesNoInstance ==
    \A i \in 1..Len(load_log) :
        LET call == load_log[i]
        IN /\ call.raised => call.after = "None"
           /\ ~call.raised => call.value = "loaded"
           /\ ~call.raised /\ call.before # "None"
                  => \E j \in 1..(i - 1) :
                        /\ ~load_log[j].raised
                        /\ load_log[j].before = "None"
                        /\ load_log[j].value = "loaded"

\* C13: the fence counts as found exactly when the first opening marker lies
\* strictly before the last three-backquote marker.  When it is found, only
\* the text inside it is parsed: valid JSON gives 200 with that value, and
\* anything else gives 500 with the after-extraction error, even when the
\* whole reply is valid JSON.  When it is not found (no opening marker, or an
\* opening marker with no later fence), the whole reply is parsed: 200 with
\* its value, or 500 with the unexpected-format error.
C13_FallbackOrder ==
    \A w \in Workers :
        (RespondedTo(w, "/generate_report") /\ workers[w].reply # NoReply) =>
            LET r == workers[w].reply
                resp == workers[w].resp
                found == /\ Openings(r) # {}
                         /\ SetMin(Openings(r)) < SetMax(Fences(r))
            IN /\ found /\ IsJson(FencedText(r))
                   => resp.status = 200 /\ resp.report = JsonValue(FencedText(r))
               /\ found /\ ~IsJson(FencedText(r))
                   => /\ resp.status = 500
                      /\ resp.error = "Failed to parse AI generated report. Invalid JSON format after extraction."
                      /\ resp.report = NoValue
               /\ ~found /\ IsJson(r)
                   => resp.status = 200 /\ resp.report = JsonValue(r)
               /\ ~found /\ ~IsJson(r)
                   => /\ resp.status = 500
                      /\ resp.error = "Failed to parse AI generated report. Unexpected response format."

\* a reply that is valid JSON as a whole (a string) and holds a fenced block
\* whose inside is not JSON has been answered with 500
C13_Witness ==
    \E w \in Workers :
        /\ RespondedTo(w, "/generate_report")
        /\ workers[w].reply = <<QUOTE, FENCE, "json", FENCE, QUOTE>>
        /\ IsJson(workers[w].reply)
        /\ workers[w].resp.status = 500

====
